---- MODULE Spec2Model ----
(***************************************************************************)
(* Model of kahi_impactu_utils/Utils.py: the name segmentation parser      *)
(* (split_names), the author matcher (compare_author), the profile-URL     *)
(* canonicalizer (get_id_from_url), the date normalizer                    *)
(* (check_date_format), the language poll (lang_poll) and the DOI cleaner  *)
(* (doi_processor).                                                        *)
(*                                                                         *)
(* A Python str is a sequence of one-character strings.  Every function of *)
(* the source is an operator that computes what the source computes; a     *)
(* call is one action that moves pc from "call" to "done" and stores the   *)
(* outcome in ret: [tag |-> "return", val |-> v] or                        *)
(* [tag |-> "raise", exc |-> name].                                        *)
(***************************************************************************)
EXTENDS Integers, Sequences, FiniteSets, TLC

VARIABLES pc, fn, args, ret

vars == <<pc, fn, args, ret>>

Pending == [tag |-> "pending"]

Return(v) == [tag |-> "return", val |-> v]

Raise(e) == [tag |-> "raise", exc |-> e]

\* Python's None: a value no str is equal to
None == <<"None">>

(***************************************************************************)
(* Characters and character classes of Python's str and re.                *)
(***************************************************************************)
LowerLetters ==
  <<"a", "b", "c", "d", "e", "f", "g", "h", "i", "j", "k", "l", "m",
    "n", "o", "p", "q", "r", "s", "t", "u", "v", "w", "x", "y", "z",
    "á", "é", "í", "ó", "ú", "ñ">>

UpperLetters ==
  <<"A", "B", "C", "D", "E", "F", "G", "H", "I", "J", "K", "L", "M",
    "N", "O", "P", "Q", "R", "S", "T", "U", "V", "W", "X", "Y", "Z",
    "Á", "É", "Í", "Ó", "Ú", "Ñ">>

LowerSet == {LowerLetters[i] : i \in 1..Len(LowerLetters)}

UpperSet == {UpperLetters[i] : i \in 1..Len(UpperLetters)}

Digits == {"0", "1", "2", "3", "4", "5", "6", "7", "8", "9"}

ToLower == [c \in UpperSet |-> LowerLetters[CHOOSE i \in 1..Len(UpperLetters) : UpperLetters[i] = c]]

ToUpper == [c \in LowerSet |-> UpperLetters[CHOOSE i \in 1..Len(LowerLetters) : LowerLetters[i] = c]]

IsCased(c) == c \in LowerSet \cup UpperSet

LowerChar(c) == IF c \in UpperSet THEN ToLower[c] ELSE c

UpperChar(c) == IF c \in LowerSet THEN ToUpper[c] ELSE c

\* \s
IsSpace(c) == c \in {" ", "\t", "\n"}

\* \w (str patterns are Unicode patterns: accented letters are word characters)
IsWord(c) == IsCased(c) \/ c \in Digits \/ c = "_"

\* \d
IsDigit(c) == c \in Digits

\* [a-zA-Z0-9]
IsAsciiAlnum(c) ==
  \/ c \in Digits
  \/ \E i \in 1..26 : c = LowerLetters[i] \/ c = UpperLetters[i]

\* str.lower()
lower(s) == [i \in 1..Len(s) |-> LowerChar(s[i])]

\* str.title(): a cased character is upper-cased when the previous character
\* is not cased and lower-cased when it is.
RECURSIVE title_from(_, _, _)
title_from(s, i, prev_cased) ==
  IF i > Len(s) THEN <<>>
  ELSE IF IsCased(s[i])
       THEN <<IF prev_cased THEN LowerChar(s[i]) ELSE UpperChar(s[i])>>
            \o title_from(s, i + 1, TRUE)
       ELSE <<s[i]>> \o title_from(s, i + 1, FALSE)

title(s) == title_from(s, 1, FALSE)

\* SubSeq that tolerates an end past the string, like a Python slice
Slice(s, a, b) == SubSeq(s, a, IF b > Len(s) THEN Len(s) ELSE b)

\* old occurs in s at index i
OccursAt(s, old, i) ==
  /\ i + Len(old) - 1 <= Len(s)
  /\ \A k \in 1..Len(old) : s[i + k - 1] = old[k]

\* `old in s`
Contains(s, old) == \E i \in 1..(Len(s) - Len(old) + 1) : OccursAt(s, old, i)

\* str.replace(old, new) with a non-empty old: non-overlapping, left to right
RECURSIVE replace_from(_, _, _, _)
replace_from(s, old, new, i) ==
  IF i > Len(s) THEN <<>>
  ELSE IF OccursAt(s, old, i)
       THEN new \o replace_from(s, old, new, i + Len(old))
       ELSE <<s[i]>> \o replace_from(s, old, new, i + 1)

replace(s, old, new) == replace_from(s, old, new, 1)

\* str.split(): the maximal runs of non-whitespace characters
RECURSIVE split_ws_from(_, _, _)
split_ws_from(s, i, start) ==
  IF i > Len(s)
  THEN IF start < i THEN <<SubSeq(s, start, i - 1)>> ELSE <<>>
  ELSE IF IsSpace(s[i])
       THEN (IF start < i THEN <<SubSeq(s, start, i - 1)>> ELSE <<>>)
            \o split_ws_from(s, i + 1, i + 1)
       ELSE split_ws_from(s, i + 1, start)

split_ws(s) == split_ws_from(s, 1, 1)

\* str.split(c): the pieces between the occurrences of c, empty ones included
RECURSIVE split_char_from(_, _, _, _)
split_char_from(s, c, i, start) ==
  IF i > Len(s) THEN <<SubSeq(s, start, i - 1)>>
  ELSE IF s[i] = c
       THEN <<SubSeq(s, start, i - 1)>> \o split_char_from(s, c, i + 1, i + 1)
       ELSE split_char_from(s, c, i + 1, start)

split_char(s, c) == split_char_from(s, c, 1, 1)

\* ' '.join(xs)
RECURSIVE join(_, _)
join(xs, glue) ==
  IF xs = <<>> THEN <<>>
  ELSE IF Len(xs) = 1 THEN xs[1]
  ELSE xs[1] \o glue \o join(Tail(xs), glue)

RECURSIVE flatten(_)
flatten(xss) == IF xss = <<>> THEN <<>> ELSE Head(xss) \o flatten(Tail(xss))

\* the elements of a sequence
Range(xs) == {xs[i] : i \in 1..Len(xs)}

\* n word characters starting at i
WordRun(s, i, n) == i + n - 1 <= Len(s) /\ \A k \in i..(i + n - 1) : IsWord(s[k])

CharAt(s, i, c) == i <= Len(s) /\ s[i] = c

SpaceAt(s, i) == i <= Len(s) /\ IsSpace(s[i])

\* [\s\-]
SpaceOrHyphenAt(s, i) == i <= Len(s) /\ (IsSpace(s[i]) \/ s[i] = "-")

RECURSIVE skip_spaces(_, _)
skip_spaces(s, i) == IF SpaceAt(s, i) THEN skip_spaces(s, i + 1) ELSE i

RECURSIVE skip_dots(_, _)
skip_dots(s, i) == IF CharAt(s, i, ".") THEN skip_dots(s, i + 1) ELSE i

(***************************************************************************)
(* split_names                                                             *)
(***************************************************************************)
\* sub(r'\s*\-\s*', '-', s): a hyphen swallows the whitespace on both sides
RECURSIVE sub_hyphen(_, _)
sub_hyphen(s, i) ==
  IF i > Len(s) THEN <<>>
  ELSE LET j == skip_spaces(s, i)
       IN  IF CharAt(s, j, "-")
           THEN <<"-">> \o sub_hyphen(s, skip_spaces(s, j + 1))
           ELSE <<s[i]>> \o sub_hyphen(s, i + 1)

\* sub(r'\s\w\.*\s', ' ', s): one pass over the non-overlapping matches
RECURSIVE sub_initial(_, _)
sub_initial(s, i) ==
  IF i > Len(s) THEN <<>>
  ELSE LET j == skip_dots(s, i + 2)
       IN  IF SpaceAt(s, i) /\ WordRun(s, i + 1, 1) /\ SpaceAt(s, j)
           THEN <<" ">> \o sub_initial(s, j + 1)
           ELSE <<s[i]>> \o sub_initial(s, i + 1)

\* length n of the \w{2,3} run starting at i that is followed by a character
\* for which the rest of the pattern goes on (greedy: 3 before 2), 0 if none
ShortRun(s, i, next) ==
  IF WordRun(s, i, 3) /\ CharAt(s, i + 3, next) THEN 3
  ELSE IF WordRun(s, i, 2) /\ CharAt(s, i + 2, next) THEN 2
  ELSE 0

ShortRunSpace(s, i) ==
  IF WordRun(s, i, 3) /\ SpaceAt(s, i + 3) THEN 3
  ELSE IF WordRun(s, i, 2) /\ SpaceAt(s, i + 2) THEN 2
  ELSE 0

\* sub('([\s\-]\w{2,3})\s', r'\1<sep>', s, UNICODE).  UNICODE lands in the
\* count parameter of re.sub (32 replacements at most), more than a string of
\* the lengths modelled here can hold.
RECURSIVE sub_glue(_, _, _)
sub_glue(s, sep, i) ==
  IF i > Len(s) THEN <<>>
  ELSE LET n == ShortRunSpace(s, i + 1)
       IN  IF SpaceOrHyphenAt(s, i) /\ n > 0
           THEN SubSeq(s, i, i + n) \o <<sep>> \o sub_glue(s, sep, i + n + 2)
           ELSE <<s[i]>> \o sub_glue(s, sep, i + 1)

\* sub('([\s\-]\w{2,3}<sep>\w{2,3})\s', r'\1<sep>', sl, UNICODE)
RECURSIVE sub_glue_chain(_, _, _)
sub_glue_chain(s, sep, i) ==
  IF i > Len(s) THEN <<>>
  ELSE LET n == ShortRun(s, i + 1, sep)
           m == ShortRunSpace(s, i + n + 2)
       IN  IF SpaceOrHyphenAt(s, i) /\ n > 0 /\ m > 0
           THEN SubSeq(s, i, i + n + 1 + m) \o <<sep>>
                \o sub_glue_chain(s, sep, i + n + m + 3)
           ELSE <<s[i]>> \o sub_glue_chain(s, sep, i + 1)

\* sub('^(\w{2,3})\s', r'\1<sep>', sl, UNICODE)
sub_glue_head(s, sep) ==
  LET n == ShortRunSpace(s, 1)
  IN  IF n > 0 THEN SubSeq(s, 1, n) \o <<sep>> \o SubSeq(s, n + 2, Len(s)) ELSE s

\* length of the \w{1,3} run at i that is followed by sep, 0 if none
TinyRun(s, i, sep) ==
  IF WordRun(s, i, 3) /\ CharAt(s, i + 3, sep) THEN 3
  ELSE IF WordRun(s, i, 2) /\ CharAt(s, i + 2, sep) THEN 2
  ELSE IF WordRun(s, i, 1) /\ CharAt(s, i + 1, sep) THEN 1
  ELSE 0

\* split('(\w{1,3})<sep>', sl): the text between the matches, each followed by
\* the captured group of the match that ends it
RECURSIVE re_split_short(_, _, _, _)
re_split_short(s, sep, i, start) ==
  IF i > Len(s) THEN <<SubSeq(s, start, Len(s))>>
  ELSE LET n == TinyRun(s, i, sep)
       IN  IF n > 0
           THEN <<SubSeq(s, start, i - 1), SubSeq(s, i, i + n - 1)>>
                \o re_split_short(s, sep, i + n + 1, i + n + 1)
           ELSE re_split_short(s, sep, i + 1, start)

\* for e in exc: sl = sl.replace(e + sep, e + ' ')
RECURSIVE unglue(_, _, _)
unglue(sl, sep, exc) ==
  IF exc = <<>> THEN sl
  ELSE unglue(replace(sl, Head(exc) \o <<sep>>, Head(exc) \o <<" ">>), sep, Tail(exc))

\* sl.find('-') as a truth value: false only when the hyphen is at index 0
FindHyphenTruthy(sl) == ~CharAt(sl, 1, "-")

HasHyphen(x) == \E i \in 1..Len(x) : x[i] = "-"

\* the string sl that split_names cuts into tokens (lines 118-137)
glued_name(s, connectors, sep) ==
  LET s1 == title(s)
      s2 == sub_hyphen(s1, 1)
      s3 == sub_initial(sub_initial(s2, 1), 1)
      conn == [i \in 1..Len(connectors) |-> title(connectors[i])]
      sl1 == sub_glue(s3, sep, 1)
      sl2 == sub_glue_chain(sl1, sep, 1)
      sl3 == sub_glue_head(sl2, sep)
      lst == SelectSeq(re_split_short(sl3, sep, 1, 1),
                       LAMBDA x : Len(x) >= 1 /\ Len(x) <= 3)
      exc == SelectSeq(lst, LAMBDA x : x \notin Range(conn))
      sl4 == unglue(sl3, sep, exc)
  IN  IF FindHyphenTruthy(sl4) /\ Len(split_ws(sl4)) = 3
      THEN replace(sl4, <<"-">>, <<" ">>)
      ELSE sl4

\* the token list T of the name
name_tokens(s, connectors, sep) == split_ws(glued_name(s, connectors, sep))

\* arrange with the foreign test inverted
arrange_swapped(sll, foreign) ==
  IF Len(sll) = 1 THEN <<<<>>, <<>>, sll[1]>>
  ELSE IF Len(sll) = 2 THEN <<sll[1], <<>>, sll[2]>>
  ELSE IF Len(sll) = 3
       THEN IF foreign
            THEN <<sll[1], <<>>>> \o SubSeq(sll, 2, 3)
            ELSE SubSeq(sll, 1, 2) \o <<sll[3], <<>>>>
       ELSE sll

\* the four-slot arrangement of the tokens (lines 139-151)
arrange(sll, foreign) ==
  IF Len(sll) = 1 THEN <<<<>>, <<>>, sll[1]>>
  ELSE IF Len(sll) = 2 THEN <<sll[1], <<>>, sll[2]>>
  ELSE IF Len(sll) = 3
       THEN IF ~foreign
            THEN <<sll[1], <<>>>> \o SubSeq(sll, 2, 3)
            ELSE SubSeq(sll, 1, 2) \o <<sll[3], <<>>>>
       ELSE sll

\* [x.replace(sep, ' ') for x in part if x]
clean_part(part, sep) ==
  LET kept == SelectSeq(part, LAMBDA x : x # <<>>)
  IN  [i \in 1..Len(kept) |-> replace(kept[i], <<sep>>, <<" ">>)]

\* flatten([x.split('-') for x in xs]) when some entry holds a hyphen
split_hyphenated(xs) ==
  IF \E i \in 1..Len(xs) : HasHyphen(xs[i])
  THEN flatten([i \in 1..Len(xs) |-> split_char(xs[i], "-")])
  ELSE xs

\* initials_of that stops after the first given name
initials_first_only(names) ==
  [i \in 1..(IF Len(names) > 1 THEN 1 ELSE Len(names)) |-> <<names[i][1], ".">>]

\* [x[0] + '.' for x in names]
initials_of(names) == [i \in 1..Len(names) |-> <<names[i][1], ".">>]

\* split_names that cuts the slots at sll[:1] and sll[1:]
split_names_cut_at_one(s, connectors, sep, foreign) ==
  LET sll == arrange(name_tokens(s, connectors, sep), foreign)
      names == split_hyphenated(clean_part(Slice(sll, 1, 1), sep))
      surenames == split_hyphenated(clean_part(Slice(sll, 2, Len(sll)), sep))
  IN  IF \E i \in 1..Len(names) : names[i] = <<>>
      THEN Raise("IndexError")
      ELSE Return([names |-> names,
                   surenames |-> surenames,
                   full_name |-> join(names \o surenames, <<" ">>),
                   initials |-> initials_of(names)])

split_names(s, connectors, sep, foreign) ==
  LET sll == arrange(name_tokens(s, connectors, sep), foreign)
      names == split_hyphenated(clean_part(Slice(sll, 1, 2), sep))
      surenames == split_hyphenated(clean_part(Slice(sll, 3, Len(sll)), sep))
  IN  IF \E i \in 1..Len(names) : names[i] = <<>>
      THEN Raise("IndexError")
      ELSE Return([names |-> names,
                   surenames |-> surenames,
                   full_name |-> join(names \o surenames, <<" ">>),
                   initials |-> initials_of(names)])

DefaultConnectors ==
  << <<"D", "E">>, <<"D", "E", "L">>, <<"L", "A">>, <<"E", "L">>,
     <<"J", "R">>, <<"J", "R", ".">> >>

DefaultSep == ":"

(***************************************************************************)
(* The names split_names is called on: the names of its docstring, the     *)
(* names of the specification's examples, and every name of at most        *)
(* MaxTokens words of NameWords joined by a separator of NameSeparators.   *)
(* The empty word gives leading, trailing and consecutive separators.      *)
(***************************************************************************)
MaxTokens == 4

NameWords == {<<>>, <<"a", "n", "a">>, <<"d", "e">>, <<"r", "u", "i", "z">>}

NameSeparators == {<<" ">>, <<"-">>}

RECURSIVE BuiltNames(_)
BuiltNames(k) ==
  IF k = 0 THEN {<<>>}
  ELSE IF k = 1 THEN NameWords
  ELSE {w \o sp \o rest : w \in NameWords, sp \in NameSeparators, rest \in BuiltNames(k - 1)}

DocstringNames == {
    \* 'DANIEL ANDRES LA ROTTA FORERO'
    <<"D", "A", "N", "I", "E", "L", " ", "A", "N", "D", "R", "E", "S", " ", "L", "A", " ", "R", "O", "T", "T", "A", " ", "F", "O", "R", "E", "R", "O">>,
    \* 'MARIA DEL CONSUELO MONTES RAMIREZ'
    <<"M", "A", "R", "I", "A", " ", "D", "E", "L", " ", "C", "O", "N", "S", "U", "E", "L", "O", " ", "M", "O", "N", "T", "E", "S", " ", "R", "A", "M", "I", "R", "E", "Z">>,
    \* 'RICARDO DE LA MERCED CALLEJAS POSADA'
    <<"R", "I", "C", "A", "R", "D", "O", " ", "D", "E", " ", "L", "A", " ", "M", "E", "R", "C", "E", "D", " ", "C", "A", "L", "L", "E", "J", "A", "S", " ", "P", "O", "S", "A", "D", "A">>,
    \* 'MARIA DEL CARMEN DE LA CUESTA BENJUMEA'
    <<"M", "A", "R", "I", "A", " ", "D", "E", "L", " ", "C", "A", "R", "M", "E", "N", " ", "D", "E", " ", "L", "A", " ", "C", "U", "E", "S", "T", "A", " ", "B", "E", "N", "J", "U", "M", "E", "A">>,
    \* 'CARLOS MARTI JARAMILLO OCAMPO NICOLAS'
    <<"C", "A", "R", "L", "O", "S", " ", "M", "A", "R", "T", "I", " ", "J", "A", "R", "A", "M", "I", "L", "L", "O", " ", "O", "C", "A", "M", "P", "O", " ", "N", "I", "C", "O", "L", "A", "S">>,
    \* 'DIEGO ALEJANDRO RESTREPO QUINTERO'
    <<"D", "I", "E", "G", "O", " ", "A", "L", "E", "J", "A", "N", "D", "R", "O", " ", "R", "E", "S", "T", "R", "E", "P", "O", " ", "Q", "U", "I", "N", "T", "E", "R", "O">>,
    \* 'JAIRO HUMBERTO RESTREPO ZEA'
    <<"J", "A", "I", "R", "O", " ", "H", "U", "M", "B", "E", "R", "T", "O", " ", "R", "E", "S", "T", "R", "E", "P", "O", " ", "Z", "E", "A">>,
    \* 'MARLEN JIMENEZ DEL RIO '
    <<"M", "A", "R", "L", "E", "N", " ", "J", "I", "M", "E", "N", "E", "Z", " ", "D", "E", "L", " ", "R", "I", "O", " ">>,
    \* 'SARA RESTREPO FERNÁNDEZ'
    <<"S", "A", "R", "A", " ", "R", "E", "S", "T", "R", "E", "P", "O", " ", "F", "E", "R", "N", "Á", "N", "D", "E", "Z">>,
    \* 'ENRICO NARDI'
    <<"E", "N", "R", "I", "C", "O", " ", "N", "A", "R", "D", "I">>,
    \* 'ANA ZEA'
    <<"A", "N", "A", " ", "Z", "E", "A">>,
    \* 'SOL ANA DE ZEA GIL'
    <<"S", "O", "L", " ", "A", "N", "A", " ", "D", "E", " ", "Z", "E", "A", " ", "G", "I", "L">>,
    \* 'RANGEL MARTINEZ VILLAL ANDRES MAURICIO'
    <<"R", "A", "N", "G", "E", "L", " ", "M", "A", "R", "T", "I", "N", "E", "Z", " ", "V", "I", "L", "L", "A", "L", " ", "A", "N", "D", "R", "E", "S", " ", "M", "A", "U", "R", "I", "C", "I", "O">>,
    \* 'ROMANO ANTONIO ENEA'
    <<"R", "O", "M", "A", "N", "O", " ", "A", "N", "T", "O", "N", "I", "O", " ", "E", "N", "E", "A">>,
    \* 'Ramón Fernandez de la Vara-Prieto'
    <<"R", "a", "m", "ó", "n", " ", "F", "e", "r", "n", "a", "n", "d", "e", "z", " ", "d", "e", " ", "l", "a", " ", "V", "a", "r", "a", "-", "P", "r", "i", "e", "t", "o">>
  }

ExampleNames == {
    \* 'Enrico Nardi'
    <<"E", "n", "r", "i", "c", "o", " ", "N", "a", "r", "d", "i">>,
    \* 'Ana Zea'
    <<"A", "n", "a", " ", "Z", "e", "a">>,
    \* 'Jairo Humberto Restrepo Zea'
    <<"J", "a", "i", "r", "o", " ", "H", "u", "m", "b", "e", "r", "t", "o", " ", "R", "e", "s", "t", "r", "e", "p", "o", " ", "Z", "e", "a">>,
    \* 'ana j. k. zea'
    <<"a", "n", "a", " ", "j", ".", " ", "k", ".", " ", "z", "e", "a">>,
    \* 'J. Ana Zea'
    <<"J", ".", " ", "A", "n", "a", " ", "Z", "e", "a">>,
    \* 'Maria de la Cruz-Lopez'
    <<"M", "a", "r", "i", "a", " ", "d", "e", " ", "l", "a", " ", "C", "r", "u", "z", "-", "L", "o", "p", "e", "z">>,
    \* 'Ana Maria Ruiz-Gil Zea Jr.'
    <<"A", "n", "a", " ", "M", "a", "r", "i", "a", " ", "R", "u", "i", "z", "-", "G", "i", "l", " ", "Z", "e", "a", " ", "J", "r", ".">>,
    \* '  '
    <<" ", " ">>
  }

NameInputs == DocstringNames \cup ExampleNames \cup UNION {BuiltNames(k) : k \in 0..MaxTokens}

InitSplit ==
  /\ pc = "call"
  /\ fn = "split_names"
  /\ \E s \in NameInputs, foreign \in BOOLEAN : args = [s |-> s, foreign |-> foreign]
  /\ ret = Pending

\* d = split_names(s, foreign=foreign)
CallSplitNames ==
  /\ pc = "call"
  /\ fn = "split_names"
  /\ ret' = split_names(args.s, DefaultConnectors, DefaultSep, args.foreign)
  /\ pc' = "done"
  /\ UNCHANGED <<fn, args>>

NextSplit == CallSplitNames

SpecSplit == InitSplit /\ [][NextSplit]_vars

(***************************************************************************)
(* Claims about split_names, checked under SpecSplit.                      *)
(***************************************************************************)
SplitDone == fn = "split_names" /\ pc = "done"

\* the token list T of the call's name, and a token with its glue shown as
\* the space split_names returns it with
TokensOfCall == name_tokens(args.s, DefaultConnectors, DefaultSep)

Shown(tok) == replace(tok, <<DefaultSep>>, <<" ">>)

NoHyphenInTokens == \A i \in 1..Len(TokensOfCall) : ~HasHyphen(TokensOfCall[i])

SplitOf(s, names, surenames) ==
  (SplitDone /\ args.s = s /\ ~args.foreign)
    => ret.tag = "return" /\ ret.val.names = names /\ ret.val.surenames = surenames

\* C2: with no hyphen left in any token of T, one token is the surname, two
\* tokens are one given name and one surname, three tokens are one given name
\* and two surnames (two given names and one surname when foreign), and more
\* than three tokens are two given names followed by all the other tokens as
\* surnames; 'Enrico Nardi', 'Ana Zea' and 'Jairo Humberto Restrepo Zea' come
\* out as (Enrico | Nardi), (Ana | Zea) and (Jairo, Humberto | Restrepo, Zea).
C2_TokenArrangement ==
  /\ (SplitDone /\ NoHyphenInTokens /\ Len(TokensOfCall) >= 1) =>
       LET T == [i \in 1..Len(TokensOfCall) |-> Shown(TokensOfCall[i])]
           n == Len(T)
       IN  /\ ret.tag = "return"
           /\ n = 1 => ret.val.names = <<>> /\ ret.val.surenames = <<T[1]>>
           /\ n = 2 => ret.val.names = <<T[1]>> /\ ret.val.surenames = <<T[2]>>
           /\ (n = 3 /\ ~args.foreign) =>
                ret.val.names = <<T[1]>> /\ ret.val.surenames = <<T[2], T[3]>>
           /\ (n = 3 /\ args.foreign) =>
                ret.val.names = <<T[1], T[2]>> /\ ret.val.surenames = <<T[3]>>
           /\ n > 3 =>
                ret.val.names = <<T[1], T[2]>> /\ ret.val.surenames = SubSeq(T, 3, n)
  /\ SplitOf(<<"E", "n", "r", "i", "c", "o", " ", "N", "a", "r", "d", "i">>, <<<<"E", "n", "r", "i", "c", "o">>>>, <<<<"N", "a", "r", "d", "i">>>>)
  /\ SplitOf(<<"A", "n", "a", " ", "Z", "e", "a">>, <<<<"A", "n", "a">>>>, <<<<"Z", "e", "a">>>>)
  /\ SplitOf(<<"J", "a", "i", "r", "o", " ", "H", "u", "m", "b", "e", "r", "t", "o", " ", "R", "e", "s", "t", "r", "e", "p", "o", " ", "Z", "e", "a">>,
             <<<<"J", "a", "i", "r", "o">>, <<"H", "u", "m", "b", "e", "r", "t", "o">>>>,
             <<<<"R", "e", "s", "t", "r", "e", "p", "o">>, <<"Z", "e", "a">>>>)

\* a foreign name of three tokens, one of them a glued connector, has been split
C2_Witness ==
  /\ SplitDone /\ NoHyphenInTokens /\ args.foreign
  /\ Len(TokensOfCall) = 3
  /\ \E i \in 1..3 : DefaultSep \in Range(SubSeq(TokensOfCall[i], 2, Len(TokensOfCall[i]) - 1))
  /\ Len(ret.val.names) = 2

\* C3: whenever split_names returns, full_name is the single-space join of
\* names followed by surenames, and initials has one entry per given name, the
\* first character of that given name followed by '.'.
C3_FullNameAndInitials ==
  (SplitDone /\ ret.tag = "return") =>
    /\ ret.val.full_name = join(ret.val.names \o ret.val.surenames, <<" ">>)
    /\ Len(ret.val.initials) = Len(ret.val.names)
    /\ \A i \in 1..Len(ret.val.names) :
         ret.val.initials[i] = <<Head(ret.val.names[i]), ".">>

\* a hyphenated given name has been split and flattened into two given names
C3_Witness ==
  /\ SplitDone /\ ret.tag = "return"
  /\ Len(TokensOfCall) = 2
  /\ HasHyphen(TokensOfCall[1])
  /\ Len(ret.val.names) = 2
  /\ Len(ret.val.initials) = 2

\* C4: split_names never raises, it returns a dictionary for every input.
C4_NeverRaises == SplitDone => ret.tag = "return"

\* C10: names has at most 2 entries and surenames has at most 2 entries.
C10_AtMostTwoEach ==
  (SplitDone /\ ret.tag = "return") =>
    Len(ret.val.names) <= 2 /\ Len(ret.val.surenames) <= 2

\* C10 as amended: names and surenames have at most 2 entries each when T has
\* at most four tokens and no token holds a hyphen.
C10_AtMostTwoUpToFourTokens ==
  (SplitDone /\ NoHyphenInTokens /\ Len(TokensOfCall) <= 4) =>
    /\ ret.tag = "return"
    /\ Len(ret.val.names) <= 2
    /\ Len(ret.val.surenames) <= 2

\* a name of four tokens has been split into two given names and two surnames
C10_Witness ==
  /\ SplitDone /\ NoHyphenInTokens
  /\ Len(TokensOfCall) = 4
  /\ Len(ret.val.names) = 2
  /\ Len(ret.val.surenames) = 2

(***************************************************************************)
(* normalize_name, normalize_names, compare_author                         *)
(***************************************************************************)
\* unidecode.unidecode on the letters modelled: the accent is dropped
Accented == <<"á", "é", "í", "ó", "ú", "ñ", "Á", "É", "Í", "Ó", "Ú", "Ñ">>

Unaccented == <<"a", "e", "i", "o", "u", "n", "A", "E", "I", "O", "U", "N">>

IsAscii(c) == c \notin Range(Accented)

unidecode(s) ==
  [i \in 1..Len(s) |->
     IF IsAscii(s[i]) THEN s[i]
     ELSE Unaccented[CHOOSE k \in 1..Len(Accented) : Accented[k] = s[i]]]

\* .encode("ascii", "ignore"): the characters outside ASCII are dropped
encode_ascii_ignore(s) == SelectSeq(s, IsAscii)

\* str(b) of a bytes object of printable ASCII: b'...', with double quotes when
\* the text holds a single quote and no double quote, a backslash before a
\* backslash and before the quote it is delimited by
RECURSIVE escape_bytes(_, _)
escape_bytes(s, quote) ==
  IF s = <<>> THEN <<>>
  ELSE (IF Head(s) = "\\" \/ Head(s) = quote THEN <<"\\", Head(s)>> ELSE <<Head(s)>>)
       \o escape_bytes(Tail(s), quote)

str_of_bytes(s) ==
  LET quote == IF "'" \in Range(s) /\ "\"" \notin Range(s) THEN "\"" ELSE "'"
  IN  <<"b", quote>> \o escape_bytes(s, quote) \o <<quote>>

normalize_name(name) == lower(str_of_bytes(encode_ascii_ignore(unidecode(name))))

normalize_names(names) == [i \in 1..Len(names) |-> normalize_name(names[i])]

\* name_found that asks for the same given names on both sides
name_found_whole_list(first_names1, first_names2) ==
  IF normalize_names(first_names1) = normalize_names(first_names2)
  THEN Range(normalize_names(first_names1))
  ELSE {}

\* set(normalize_names(a)).intersection(normalize_names(b))
name_found(first_names1, first_names2) ==
  Range(normalize_names(first_names1)) \cap Range(normalize_names(first_names2))

\* if name_found and normalize_name(l1[0]) == normalize_name(l2[0]): return True
\* else: return False
same_names(first_names1, last_names1, first_names2, last_names2) ==
  IF name_found(first_names1, first_names2) # {}
     /\ normalize_name(last_names1[1]) = normalize_name(last_names2[1])
  THEN Return(TRUE)
  ELSE Return(FALSE)

\* lines 553-563: author1 is structured, author2_names is the outcome of
\* split_names(author2["full_name"])
compare_structured_split(author1, author2_names) ==
  IF author2_names.tag = "raise" THEN author2_names
  ELSE IF Len(author2_names.val.names) > 0 /\ Len(author2_names.val.surenames) > 0
  THEN same_names(author1.first_names, author1.last_names,
                  author2_names.val.names, author2_names.val.surenames)
  ELSE Return(FALSE)

\* lines 579-594: neither side is structured, author1_names is the dictionary
\* split_names returned for author1 and author2_names the outcome of
\* split_names(author2["full_name"])
compare_split_split(author1_names, author2_names) ==
  IF author2_names.tag = "raise" THEN author2_names
  ELSE IF Len(author2_names.val.names) > 0 /\ Len(author2_names.val.surenames) > 0
  THEN IF Len(author1_names.names) > 0 /\ Len(author1_names.surenames) # 0
       THEN same_names(author1_names.names, author1_names.surenames,
                       author2_names.val.names, author2_names.val.surenames)
       ELSE Return(FALSE)
  ELSE Return(FALSE)

\* lines 565-594: author1 is not structured, author1_names is the outcome of
\* split_names(author1["full_name"])
compare_split_any(author1_names, author2) ==
  IF author1_names.tag = "raise" THEN author1_names
  ELSE IF Len(author2.first_names) > 0 /\ Len(author2.last_names) > 0
  THEN IF Len(author1_names.val.names) > 0 /\ Len(author1_names.val.surenames) > 0
       THEN same_names(author1_names.val.names, author1_names.val.surenames,
                       author2.first_names, author2.last_names)
       ELSE Return(FALSE)
  ELSE compare_split_split(
         author1_names.val,
         split_names(author2.full_name, DefaultConnectors, DefaultSep, FALSE))

compare_author(author1, author2) ==
  IF Len(author1.first_names) > 0 /\ Len(author1.last_names) > 0
  THEN IF Len(author2.first_names) > 0 /\ Len(author2.last_names) > 0
       THEN same_names(author1.first_names, author1.last_names,
                       author2.first_names, author2.last_names)
       ELSE compare_structured_split(
              author1,
              split_names(author2.full_name, DefaultConnectors, DefaultSep, FALSE))
  ELSE compare_split_any(
         split_names(author1.full_name, DefaultConnectors, DefaultSep, FALSE),
         author2)

(***************************************************************************)
(* The author records compare_author is called on: every combination of    *)
(* the given-name lists, surname lists and full names below, structured    *)
(* (both lists filled) or not.                                             *)
(***************************************************************************)
FirstNamesLists == {
    \* []
    <<>>,
    \* ['Maria']
    <<<<"M", "a", "r", "i", "a">>>>,
    \* ['Maria', 'Jose']
    <<<<"M", "a", "r", "i", "a">>, <<"J", "o", "s", "e">>>>,
    \* ['Maria Jose']
    <<<<"M", "a", "r", "i", "a", " ", "J", "o", "s", "e">>>>,
    \* ['MARÍA']
    <<<<"M", "A", "R", "Í", "A">>>>
  }

LastNamesLists == {
    \* []
    <<>>,
    \* ['Gomez']
    <<<<"G", "o", "m", "e", "z">>>>,
    \* ['Ruiz', 'Gomez']
    <<<<"R", "u", "i", "z">>, <<"G", "o", "m", "e", "z">>>>
  }

FullNames == {
    \* ''
    <<>>,
    \* 'Maria Gomez'
    <<"M", "a", "r", "i", "a", " ", "G", "o", "m", "e", "z">>,
    \* 'maría josé gómez ruiz'
    <<"m", "a", "r", "í", "a", " ", "j", "o", "s", "é", " ", "g", "ó", "m", "e", "z", " ", "r", "u", "i", "z">>,
    \* '-Maria Gomez'
    <<"-", "M", "a", "r", "i", "a", " ", "G", "o", "m", "e", "z">>
  }

AuthorRecords ==
  [first_names : FirstNamesLists, last_names : LastNamesLists, full_name : FullNames]

InitCompare ==
  /\ pc = "call"
  /\ fn = "compare_author"
  /\ \E a \in AuthorRecords, b \in AuthorRecords : args = [author1 |-> a, author2 |-> b]
  /\ ret = Pending

\* compare_author(author1, author2)
CallCompareAuthor ==
  /\ pc = "call"
  /\ fn = "compare_author"
  /\ ret' = compare_author(args.author1, args.author2)
  /\ pc' = "done"
  /\ UNCHANGED <<fn, args>>

NextCompare == CallCompareAuthor

SpecCompare == InitCompare /\ [][NextCompare]_vars

(***************************************************************************)
(* Claims about compare_author, checked under SpecCompare.                 *)
(***************************************************************************)
CompareDone == fn = "compare_author" /\ pc = "done"

Structured(a) == Len(a.first_names) > 0 /\ Len(a.last_names) > 0

\* lower-cased ASCII transliteration
Plain(name) == lower(unidecode(name))

\* the given names and surnames a side is compared by: its own lists when it
\* is structured, the lists split_names derives from full_name otherwise
\* (nothing when split_names does not return)
SideOf(a) ==
  IF Structured(a) THEN [names |-> a.first_names, surenames |-> a.last_names]
  ELSE LET d == split_names(a.full_name, DefaultConnectors, DefaultSep, FALSE)
       IN  IF d.tag = "return"
           THEN [names |-> d.val.names, surenames |-> d.val.surenames]
           ELSE [names |-> <<>>, surenames |-> <<>>]

CommonGivenName(xs, ys) ==
  \E i \in 1..Len(xs), j \in 1..Len(ys) : Plain(xs[i]) = Plain(ys[j])

MatchRule(a, b) ==
  LET x == SideOf(a)
      y == SideOf(b)
  IN  /\ Len(x.names) > 0 /\ Len(x.surenames) > 0
      /\ Len(y.names) > 0 /\ Len(y.surenames) > 0
      /\ CommonGivenName(x.names, y.names)
      /\ Plain(x.surenames[1]) = Plain(y.surenames[1])

\* C1: for every pair of records compare_author returns True when, after an
\* unstructured side is replaced by the split of its full_name, both sides
\* have a given name and a surname, the normalized given names have a common
\* element and the normalized first surnames are equal; it returns False
\* otherwise.
C1_MatchRule ==
  CompareDone =>
    /\ ret.tag = "return"
    /\ ret.val <=> MatchRule(args.author1, args.author2)

\* g is one of several words of entry
OneWordOf(g, entry) ==
  Len(split_ws(entry)) > 1 /\ \E k \in 1..Len(split_ws(entry)) : Plain(split_ws(entry)[k]) = Plain(g)

SameFirstSurname ==
  Plain(args.author1.last_names[1]) = Plain(args.author2.last_names[1])

\* C5: two structured records with the same first surname match when one side
\* holds a single given name and the other side holds one multi-word entry
\* that contains that given name as a word (['Maria'] against ['Maria Jose']).
C5_MultiWordEntryMatches ==
  (/\ CompareDone
   /\ Structured(args.author1) /\ Structured(args.author2)
   /\ SameFirstSurname
   /\ Len(args.author1.first_names) = 1 /\ Len(args.author2.first_names) = 1
   /\ OneWordOf(args.author1.first_names[1], args.author2.first_names[1]))
    => ret = Return(TRUE)

\* C5 as amended: two structured records with the same first surname match
\* exactly when their given-name lists have an entry in common after
\* normalization (['Maria'] against ['Maria', 'Jose']); a multi-word entry is
\* compared as a whole.
C5_CommonEntryMatches ==
  (/\ CompareDone
   /\ Structured(args.author1) /\ Structured(args.author2)
   /\ SameFirstSurname)
    => /\ ret.tag = "return"
       /\ ret.val <=> CommonGivenName(args.author1.first_names, args.author2.first_names)

\* ['Maria'] Gomez has been compared with ['Maria', 'Jose'] Gomez and matched
C5_Witness ==
  /\ CompareDone
  /\ args.author1.first_names = <<<<"M", "a", "r", "i", "a">>>>
  /\ args.author2.first_names = <<<<"M", "a", "r", "i", "a">>, <<"J", "o", "s", "e">>>>
  /\ Structured(args.author1) /\ Structured(args.author2)
  /\ SameFirstSurname
  /\ ret = Return(TRUE)

(***************************************************************************)
(* get_id_type_from_url, the parse_*_id_from_url functions, get_id_from_url *)
(***************************************************************************)
\* the characters with the codes 32..126, in the order of their codes (the
\* grave accent, code 96, is written "backtick")
Printable ==
  <<
    " ", "!", "\"", "#", "$", "%", "&", "'", "(", ")", "*", "+",
    ",", "-", ".", "/", "0", "1", "2", "3", "4", "5", "6", "7",
    "8", "9", ":", ";", "<", "=", ">", "?", "@", "A", "B", "C",
    "D", "E", "F", "G", "H", "I", "J", "K", "L", "M", "N", "O",
    "P", "Q", "R", "S", "T", "U", "V", "W", "X", "Y", "Z", "[",
    "\\", "]", "^", "_", "backtick", "a", "b", "c", "d", "e", "f", "g",
    "h", "i", "j", "k", "l", "m", "n", "o", "p", "q", "r", "s",
    "t", "u", "v", "w", "x", "y", "z", "{", "|", "}", "~"
  >>

FirstPrintableCode == 32

HexDigits ==
  <<"0", "1", "2", "3", "4", "5", "6", "7", "8", "9", "a", "b", "c", "d", "e", "f">>

IsHex(c) == LowerChar(c) \in Range(HexDigits)

HexValue(c) == (CHOOSE k \in 1..Len(HexDigits) : HexDigits[k] = LowerChar(c)) - 1

\* the character a %XX escape stands for; the escapes of the calls modelled
\* are those of printable ASCII, any other byte is shown as U+FFFD
CharOfCode(code) ==
  IF code >= FirstPrintableCode /\ code < FirstPrintableCode + Len(Printable)
  THEN Printable[code - FirstPrintableCode + 1]
  ELSE "\\uFFFD"

\* urllib.parse.unquote: every % followed by two hex digits is decoded, once
RECURSIVE unquote_from(_, _)
unquote_from(s, i) ==
  IF i > Len(s) THEN <<>>
  ELSE IF s[i] = "%" /\ i + 2 <= Len(s) /\ IsHex(s[i + 1]) /\ IsHex(s[i + 2])
       THEN <<CharOfCode(16 * HexValue(s[i + 1]) + HexValue(s[i + 2]))>>
            \o unquote_from(s, i + 3)
       ELSE <<s[i]>> \o unquote_from(s, i + 1)

unquote(s) == unquote_from(s, 1)

\* the character classes of the capturing groups
InClass(cls, c) ==
  CASE cls = "digit" -> IsDigit(c)                          \* \d
    [] cls = "alnum" -> IsAsciiAlnum(c)                     \* [a-zA-Z0-9]
    [] cls = "not_amp" -> c # "&"                           \* [^&]
    [] cls = "path" -> ~IsSpace(c) /\ c \notin {"/", "?", "&"}    \* [^\s/?&]
    [] cls = "segment" -> c \notin {"/", "?", "&"}          \* [^/?&]

\* the end of the run of at most max characters of cls that starts at i
RECURSIVE run_end(_, _, _, _)
run_end(s, cls, i, max) ==
  IF max > 0 /\ i <= Len(s) /\ InClass(cls, s[i])
  THEN run_end(s, cls, i + 1, max - 1)
  ELSE i - 1

\* search(r"(?:lit1|lit2|...)(cls+)", s).group(1): the run of cls after the
\* leftmost occurrence of one of the literals that such a run follows
search_after(s, lits, cls) ==
  LET Hit(i, k) ==
        /\ OccursAt(s, lits[k], i)
        /\ i + Len(lits[k]) <= Len(s)
        /\ InClass(cls, s[i + Len(lits[k])])
      hits == {i \in 1..Len(s) : \E k \in 1..Len(lits) : Hit(i, k)}
  IN  IF hits = {} THEN None
      ELSE LET i == CHOOSE h \in hits : \A g \in hits : h <= g
               k == CHOOSE k \in 1..Len(lits) :
                      Hit(i, k) /\ \A j \in 1..Len(lits) : Hit(i, j) => k <= j
               from == i + Len(lits[k])
           IN  SubSeq(s, from, run_end(s, cls, from, Len(s)))

\* the substrings get_id_type_from_url looks for, in the order of its tests
TypeMarkers ==
  <<
    [marker |-> <<"o", "r", "c", "i", "d">>,
     type |-> "orcid"],
    [marker |-> <<"r", "e", "s", "e", "a", "r", "c", "h", "g", "a", "t", "e">>,
     type |-> "researchgate"],
    [marker |-> <<"l", "i", "n", "k", "e", "d", "i", "n">>,
     type |-> "linkedin"],
    [marker |-> <<"s", "c", "h", "o", "l", "a", "r", ".", "g", "o", "o", "g", "l", "e">>,
     type |-> "scholar"],
    [marker |-> <<"s", "c", "o", "p", "u", "s">>,
     type |-> "scopus"],
    [marker |-> <<"p", "u", "b", "l", "o", "n", "s">>,
     type |-> "wos"],
    [marker |-> <<"w", "e", "b", "o", "f", "s", "c", "i", "e", "n", "c", "e">>,
     type |-> "wos"],
    [marker |-> <<"s", "s", "r", "n">>,
     type |-> "ssrn"]
  >>

get_id_type_from_url(url) ==
  LET found == {k \in 1..Len(TypeMarkers) : Contains(url, TypeMarkers[k].marker)}
  IN  IF found = {} THEN "None"
      ELSE TypeMarkers[CHOOSE k \in found : \A j \in found : k <= j].type

S_user_eq ==
  \* user=
  <<"u", "s", "e", "r", "=">>

ScholarUrl ==
  \* https://scholar.google.com/citations?user=
  <<"h", "t", "t", "p", "s", ":", "/", "/", "s", "c", "h", "o", "l", "a", "r", ".", "g", "o", "o", "g", "l", "e", ".", "c", "o", "m", "/", "c", "i", "t", "a", "t", "i", "o", "n", "s", "?", "u", "s", "e", "r", "=">>

ScholarIdLen == 12

\* findall(r"user=([^&]{1,12})", value): the captures, left to right
RECURSIVE findall_user(_, _)
findall_user(s, i) ==
  IF i > Len(s) THEN <<>>
  ELSE LET from == i + Len(S_user_eq)
           to == run_end(s, "not_amp", from, ScholarIdLen)
       IN  IF OccursAt(s, S_user_eq, i) /\ to >= from
           THEN <<SubSeq(s, from, to)>> \o findall_user(s, to + 1)
           ELSE findall_user(s, i + 1)

parse_scholar_id_from_url(value) ==
  LET found == findall_user(replace(value, <<"a", "u", "t", "h", "u", "s", "e", "r">>, <<>>), 1)
  IN  IF found # <<>> /\ Len(found[Len(found)]) = ScholarIdLen
      THEN ScholarUrl \o found[Len(found)]
      ELSE None

ResearchgateUrl ==
  \* https://www.researchgate.net/profile/
  <<"h", "t", "t", "p", "s", ":", "/", "/", "w", "w", "w", ".", "r", "e", "s", "e", "a", "r", "c", "h", "g", "a", "t", "e", ".", "n", "e", "t", "/", "p", "r", "o", "f", "i", "l", "e", "/">>

parse_researchgate_id_from_url(value) ==
  LET id == search_after(value, <<ResearchgateUrl>>, "path")
  IN  IF id # None THEN ResearchgateUrl \o id ELSE None

S_linkedin_in ==
  \* linkedin.com/in/
  <<"l", "i", "n", "k", "e", "d", "i", "n", ".", "c", "o", "m", "/", "i", "n", "/">>

LinkedinUrl ==
  \* https://www.linkedin.com/in/
  <<"h", "t", "t", "p", "s", ":", "/", "/", "w", "w", "w", ".", "l", "i", "n", "k", "e", "d", "i", "n", ".", "c", "o", "m", "/", "i", "n", "/">>

parse_linkedin_id_from_url(value) ==
  LET id == search_after(value, <<S_linkedin_in>>, "segment")
  IN  IF id # None THEN LinkedinUrl \o id ELSE None

S_ORCID ==
  \* ORCID
  <<"O", "R", "C", "I", "D">>

OrcidUrl ==
  \* https://orcid.org/
  <<"h", "t", "t", "p", "s", ":", "/", "/", "o", "r", "c", "i", "d", ".", "o", "r", "g", "/">>

OrcidGroupLen == 4

\* ([a-zA-Z0-9]{4})-?([a-zA-Z0-9]{4})-?([a-zA-Z0-9]{4})-?([a-zA-Z0-9]{4}) at i:
\* the groups still to match are n; the groups matched, or None
RECURSIVE orcid_groups_at(_, _, _)
orcid_groups_at(s, i, n) ==
  IF n = 0 THEN <<>>
  ELSE IF run_end(s, "alnum", i, OrcidGroupLen) # i + OrcidGroupLen - 1 THEN None
  ELSE LET next == i + OrcidGroupLen
           rest == IF n > 1 /\ CharAt(s, next, "-")
                   THEN orcid_groups_at(s, next + 1, n - 1)
                   ELSE orcid_groups_at(s, next, n - 1)
       IN  IF rest = None THEN None
           ELSE <<SubSeq(s, i, i + OrcidGroupLen - 1)>> \o rest

\* the match of (?:ORCID\s?)? followed by the four groups at i: the optional
\* prefix is tried first, with and then without its optional whitespace
orcid_match_at(s, i) ==
  LET after == i + Len(S_ORCID)
      with_space == IF OccursAt(s, S_ORCID, i) /\ SpaceAt(s, after)
                    THEN orcid_groups_at(s, after + 1, 4) ELSE None
      with_prefix == IF OccursAt(s, S_ORCID, i)
                     THEN orcid_groups_at(s, after, 4) ELSE None
  IN  IF with_space # None THEN with_space
      ELSE IF with_prefix # None THEN with_prefix
      ELSE orcid_groups_at(s, i, 4)

parse_orcid_id_from_url(value) ==
  LET v == replace(replace(replace(value, <<"-">>, <<>>), <<"_">>, <<>>), <<" ">>, <<>>)
      hits == {i \in 1..Len(v) : orcid_match_at(v, i) # None}
  IN  IF hits = {} THEN None
      ELSE OrcidUrl
           \o join(orcid_match_at(v, CHOOSE h \in hits : \A g \in hits : h <= g), <<"-">>)

ScopusUrl ==
  \* https://www.scopus.com/authid/detail.uri?authorId=
  <<"h", "t", "t", "p", "s", ":", "/", "/", "w", "w", "w", ".", "s", "c", "o", "p", "u", "s", ".", "c", "o", "m", "/", "a", "u", "t", "h", "i", "d", "/", "d", "e", "t", "a", "i", "l", ".", "u", "r", "i", "?", "a", "u", "t", "h", "o", "r", "I", "d", "=">>

parse_scopus_id_from_url(value) ==
  LET id == search_after(value,
                        << <<"a", "u", "t", "h", "o", "r", "I", "d", "=">>,
                           <<"a", "u", "t", "h", "o", "r", "I", "D", "=">> >>,
                        "digit")
  IN  IF id # None THEN ScopusUrl \o id ELSE None

SsrnUrl ==
  \* https://papers.ssrn.com/sol3/cf_dev/AbsByAuth.cfm?per_id=
  <<"h", "t", "t", "p", "s", ":", "/", "/", "p", "a", "p", "e", "r", "s", ".", "s", "s", "r", "n", ".", "c", "o", "m", "/", "s", "o", "l", "3", "/", "c", "f", "_", "d", "e", "v", "/", "A", "b", "s", "B", "y", "A", "u", "t", "h", ".", "c", "f", "m", "?", "p", "e", "r", "_", "i", "d", "=">>

parse_ssrn_id_from_url(value) ==
  LET id == search_after(value,
                        << <<"p", "e", "r", "_", "i", "d", "=">>,
                           <<"p", "a", "r", "t", "i", "d", "=">>,
                           <<"p", "a", "r", "t", "I", "D", "=">>,
                           <<"a", "u", "t", "h", "o", "r", "=">> >>,
                        "digit")
  IN  IF id # None THEN SsrnUrl \o id ELSE None

WosUrl ==
  \* https://www.webofscience.com/wos/author/record/
  <<"h", "t", "t", "p", "s", ":", "/", "/", "w", "w", "w", ".", "w", "e", "b", "o", "f", "s", "c", "i", "e", "n", "c", "e", ".", "c", "o", "m", "/", "w", "o", "s", "/", "a", "u", "t", "h", "o", "r", "/", "r", "e", "c", "o", "r", "d", "/">>

parse_wos_id_from_url(value) ==
  IF \/ Contains(value, <<"w", "e", "b", "o", "f", "s", "c", "i", "e", "n", "c", "e">>)
     \/ Contains(value, <<"p", "u", "b", "l", "o", "n", "s">>)
  THEN LET id == search_after(value, << <<"/">> >>, "digit")
       IN  IF id # None THEN WosUrl \o id ELSE None
  ELSE None

get_id_from_url(value) ==
  LET v == replace(unquote(value), <<" ">>, <<>>)
      type == get_id_type_from_url(v)
  IN  IF type = "scholar" THEN parse_scholar_id_from_url(v)
      ELSE IF type = "researchgate" THEN parse_researchgate_id_from_url(v)
      ELSE IF type = "linkedin" THEN parse_linkedin_id_from_url(v)
      ELSE IF type = "orcid" THEN parse_orcid_id_from_url(v)
      ELSE IF type = "scopus" THEN parse_scopus_id_from_url(v)
      ELSE IF type = "wos" THEN parse_wos_id_from_url(v)
      ELSE IF type = "ssrn" THEN parse_ssrn_id_from_url(v)
      ELSE None

(***************************************************************************)
(* The profile URLs get_id_from_url is called on: a platform's address     *)
(* followed by an identifier and by what a pasted URL ends with.           *)
(***************************************************************************)
UrlPrefixes == {
    \* 'https://orcid.org/'
    <<"h", "t", "t", "p", "s", ":", "/", "/", "o", "r", "c", "i", "d", ".", "o", "r", "g", "/">>,
    \* 'orcid.org/ORCID '
    <<"o", "r", "c", "i", "d", ".", "o", "r", "g", "/", "O", "R", "C", "I", "D", " ">>,
    \* 'https://www.researchgate.net/profile/'
    <<"h", "t", "t", "p", "s", ":", "/", "/", "w", "w", "w", ".", "r", "e", "s", "e", "a", "r", "c", "h", "g", "a", "t", "e", ".", "n", "e", "t", "/", "p", "r", "o", "f", "i", "l", "e", "/">>,
    \* 'https://www.linkedin.com/in/'
    <<"h", "t", "t", "p", "s", ":", "/", "/", "w", "w", "w", ".", "l", "i", "n", "k", "e", "d", "i", "n", ".", "c", "o", "m", "/", "i", "n", "/">>,
    \* 'https://scholar.google.com/citations?user='
    <<"h", "t", "t", "p", "s", ":", "/", "/", "s", "c", "h", "o", "l", "a", "r", ".", "g", "o", "o", "g", "l", "e", ".", "c", "o", "m", "/", "c", "i", "t", "a", "t", "i", "o", "n", "s", "?", "u", "s", "e", "r", "=">>,
    \* 'https://scholar.google.com/citations?hl=en&authuser=1&user='
    <<"h", "t", "t", "p", "s", ":", "/", "/", "s", "c", "h", "o", "l", "a", "r", ".", "g", "o", "o", "g", "l", "e", ".", "c", "o", "m", "/", "c", "i", "t", "a", "t", "i", "o", "n", "s", "?", "h", "l", "=", "e", "n", "&", "a", "u", "t", "h", "u", "s", "e", "r", "=", "1", "&", "u", "s", "e", "r", "=">>,
    \* 'https://www.scopus.com/authid/detail.uri?authorId='
    <<"h", "t", "t", "p", "s", ":", "/", "/", "w", "w", "w", ".", "s", "c", "o", "p", "u", "s", ".", "c", "o", "m", "/", "a", "u", "t", "h", "i", "d", "/", "d", "e", "t", "a", "i", "l", ".", "u", "r", "i", "?", "a", "u", "t", "h", "o", "r", "I", "d", "=">>,
    \* 'https://publons.com/researcher/'
    <<"h", "t", "t", "p", "s", ":", "/", "/", "p", "u", "b", "l", "o", "n", "s", ".", "c", "o", "m", "/", "r", "e", "s", "e", "a", "r", "c", "h", "e", "r", "/">>,
    \* 'https://www.webofscience.com/wos/author/record/'
    <<"h", "t", "t", "p", "s", ":", "/", "/", "w", "w", "w", ".", "w", "e", "b", "o", "f", "s", "c", "i", "e", "n", "c", "e", ".", "c", "o", "m", "/", "w", "o", "s", "/", "a", "u", "t", "h", "o", "r", "/", "r", "e", "c", "o", "r", "d", "/">>,
    \* 'https://papers.ssrn.com/sol3/cf_dev/AbsByAuth.cfm?per_id='
    <<"h", "t", "t", "p", "s", ":", "/", "/", "p", "a", "p", "e", "r", "s", ".", "s", "s", "r", "n", ".", "c", "o", "m", "/", "s", "o", "l", "3", "/", "c", "f", "_", "d", "e", "v", "/", "A", "b", "s", "B", "y", "A", "u", "t", "h", ".", "c", "f", "m", "?", "p", "e", "r", "_", "i", "d", "=">>,
    \* 'https://example.org/'
    <<"h", "t", "t", "p", "s", ":", "/", "/", "e", "x", "a", "m", "p", "l", "e", ".", "o", "r", "g", "/">>
  }

UrlIds == {
    \* '0000-0002-1234-5678'
    <<"0", "0", "0", "0", "-", "0", "0", "0", "2", "-", "1", "2", "3", "4", "-", "5", "6", "7", "8">>,
    \* '0000000212345678'
    <<"0", "0", "0", "0", "0", "0", "0", "2", "1", "2", "3", "4", "5", "6", "7", "8">>,
    \* 'John_Doe'
    <<"J", "o", "h", "n", "_", "D", "o", "e">>,
    \* 'John%20Doe'
    <<"J", "o", "h", "n", "%", "2", "0", "D", "o", "e">>,
    \* 'A%2520B'
    <<"A", "%", "2", "5", "2", "0", "B">>,
    \* 'abcdefghijkl'
    <<"a", "b", "c", "d", "e", "f", "g", "h", "i", "j", "k", "l">>,
    \* 'authauthuseruserABCD'
    <<"a", "u", "t", "h", "a", "u", "t", "h", "u", "s", "e", "r", "u", "s", "e", "r", "A", "B", "C", "D">>,
    \* '57193'
    <<"5", "7", "1", "9", "3">>,
    \* 'scopus-orcid'
    <<"s", "c", "o", "p", "u", "s", "-", "o", "r", "c", "i", "d">>
  }

UrlSuffixes == {
    \* ''
    <<>>,
    \* '/'
    <<"/">>,
    \* '&hl=es'
    <<"&", "h", "l", "=", "e", "s">>,
    \* '?view=full'
    <<"?", "v", "i", "e", "w", "=", "f", "u", "l", "l">>
  }

UrlInputs == {p \o id \o sfx : p \in UrlPrefixes, id \in UrlIds, sfx \in UrlSuffixes}

InitUrl ==
  /\ pc = "call"
  /\ fn = "get_id_from_url"
  /\ \E value \in UrlInputs : args = [value |-> value]
  /\ ret = Pending

\* get_id_from_url(value)
CallGetIdFromUrl ==
  /\ pc = "call"
  /\ fn = "get_id_from_url"
  /\ ret' = Return(get_id_from_url(args.value))
  /\ pc' = "done"
  /\ UNCHANGED <<fn, args>>

NextUrl == CallGetIdFromUrl

SpecUrl == InitUrl /\ [][NextUrl]_vars

(***************************************************************************)
(* Claims about get_id_from_url, checked under SpecUrl.                    *)
(***************************************************************************)
UrlDone == fn = "get_id_from_url" /\ pc = "done"

\* C6: when get_id_from_url(url) returns a canonical URL c, get_id_from_url(c)
\* returns c unchanged, for every platform.
C6_Idempotent ==
  (UrlDone /\ ret.val # None) => get_id_from_url(ret.val) = ret.val

(***************************************************************************)
(* check_date_format                                                       *)
(***************************************************************************)
PyInt(n) == [type |-> "int", value |-> n]

PyStr(s) == [type |-> "str", value |-> s]

\* The layouts of lines 238-245, one item per character matched: "\\d" is a
\* digit, "\\w" a word character, anything else the character itself.
\* r"^\w{3}, \d{2} \w{3} \d{4} \d{2}:\d{2}:\d{2} \w{3}$"
wdmyhmsz_format ==
  <<"\\w", "\\w", "\\w", ",", " ", "\\d", "\\d", " ", "\\w", "\\w", "\\w",
    " ", "\\d", "\\d", "\\d", "\\d", " ", "\\d", "\\d", ":", "\\d", "\\d",
    ":", "\\d", "\\d", " ", "\\w", "\\w", "\\w">>

\* r"\d{4}-\d{2}-\d{2}T\d{2}:\d{2}:\d{2}\.\d{3}"
ymdhmsf_format ==
  <<"\\d", "\\d", "\\d", "\\d", "-", "\\d", "\\d", "-", "\\d", "\\d", "T",
    "\\d", "\\d", ":", "\\d", "\\d", ":", "\\d", "\\d", ".", "\\d", "\\d",
    "\\d">>

\* r"\d{4}-\d{2}-\d{2} \d{2}:\d{2}:\d{2}"
ymdhms_format ==
  <<"\\d", "\\d", "\\d", "\\d", "-", "\\d", "\\d", "-", "\\d", "\\d", " ",
    "\\d", "\\d", ":", "\\d", "\\d", ":", "\\d", "\\d">>

\* r"\d{2}-\d{2}-\d{4} \d{2}:\d{2}:\d{2}"
dmyhms_format ==
  <<"\\d", "\\d", "-", "\\d", "\\d", "-", "\\d", "\\d", "\\d", "\\d", " ",
    "\\d", "\\d", ":", "\\d", "\\d", ":", "\\d", "\\d">>

\* r"\d{4}-\d{2}-\d{2}"
ymd_format ==
  <<"\\d", "\\d", "\\d", "\\d", "-", "\\d", "\\d", "-", "\\d", "\\d">>

\* r"\d{2}-\d{2}-\d{4}"
dmy_format ==
  <<"\\d", "\\d", "-", "\\d", "\\d", "-", "\\d", "\\d", "\\d", "\\d">>

\* r"\d{4}-\d{2}"
ym_format ==
  <<"\\d", "\\d", "\\d", "\\d", "-", "\\d", "\\d">>

\* r"\d{2}-\d{4}"
my_format ==
  <<"\\d", "\\d", "-", "\\d", "\\d", "\\d", "\\d">>

ItemMatches(item, c) ==
  IF item = "\\d" THEN IsDigit(c)
  ELSE IF item = "\\w" THEN IsWord(c)
  ELSE c = item

\* match(layout, date_str): the layout matches at the start of the string;
\* anchored with $, it must also end the string or stand before its last "\n"
re_match(layout, date_str, anchored) ==
  /\ Len(date_str) >= Len(layout)
  /\ \A i \in 1..Len(layout) : ItemMatches(layout[i], date_str[i])
  /\ anchored =>
       \/ Len(date_str) = Len(layout)
       \/ Len(date_str) = Len(layout) + 1 /\ date_str[Len(date_str)] = "\n"

DigitValue(c) == CHOOSE n \in 0..9 : Printable[n + 17] = c

\* int() of the digits s[from..to]
RECURSIVE int_of(_, _, _)
int_of(s, from, to) ==
  IF to < from THEN 0 ELSE 10 * int_of(s, from, to - 1) + DigitValue(s[to])

WeekdayNames ==
  { <<"m", "o", "n">>, <<"t", "u", "e">>, <<"w", "e", "d">>, <<"t", "h", "u">>,
    <<"f", "r", "i">>, <<"s", "a", "t">>, <<"s", "u", "n">> }

MonthNames ==
  << <<"j", "a", "n">>, <<"f", "e", "b">>, <<"m", "a", "r">>, <<"a", "p", "r">>,
     <<"m", "a", "y">>, <<"j", "u", "n">>, <<"j", "u", "l">>, <<"a", "u", "g">>,
     <<"s", "e", "p">>, <<"o", "c", "t">>, <<"n", "o", "v">>, <<"d", "e", "c">> >>

IsLeap(y) == y % 4 = 0 /\ (y % 100 # 0 \/ y % 400 = 0)

DaysInMonth(y, mo) ==
  IF mo = 2 THEN (IF IsLeap(y) THEN 29 ELSE 28)
  ELSE IF mo \in {4, 6, 9, 11} THEN 30 ELSE 31

\* days from 1970-01-01 to y-mo-d in the proleptic Gregorian calendar
DaysFromCivil(y, mo, d) ==
  LET yy == IF mo <= 2 THEN y - 1 ELSE y
      era == yy \div 400
      yoe == yy - era * 400
      doy == (153 * (IF mo > 2 THEN mo - 3 ELSE mo + 9) + 2) \div 5 + d - 1
      doe == yoe * 365 + yoe \div 4 - yoe \div 100 + doy
  IN  era * 146097 + doe - 719468

\* int(datetime(y, mo, d, h, mi, s, micro).timestamp()) of a naive datetime in
\* a zone utc_offset seconds east of UTC, or ValueError when a field is out of
\* range; int() drops the fraction towards zero
timestamp_of(f, utc_offset) ==
  IF /\ f.year >= 1 /\ f.month \in 1..12
     /\ f.day >= 1 /\ f.day <= DaysInMonth(f.year, f.month)
     /\ f.hour <= 23 /\ f.minute <= 59 /\ f.second <= 59
  THEN LET whole == DaysFromCivil(f.year, f.month, f.day) * 86400
                    + f.hour * 3600 + f.minute * 60 + f.second - utc_offset
       IN  Return(PyInt(IF whole < 0 /\ f.micro > 0 THEN whole + 1 ELSE whole))
  ELSE Raise("ValueError")

\* the fields strptime starts from
DefaultFields ==
  [year |-> 1900, month |-> 1, day |-> 1, hour |-> 0, minute |-> 0, second |-> 0, micro |-> 0]

\* a two-digit field whose digits strptime's directive accepts: %d 01..31,
\* %m 01..12, %H 00..23, %M 00..59, %S 00..61
FieldOk(s, at, low, high) == int_of(s, at, at + 1) \in low..high

\* up to three more digits of %f ([0-9]{1,6}) after the three of the layout
RECURSIVE more_digits(_, _, _)
more_digits(s, i, max) ==
  IF max > 0 /\ i <= Len(s) /\ IsDigit(s[i]) THEN 1 + more_digits(s, i + 1, max - 1) ELSE 0

RECURSIVE Pow10(_)
Pow10(n) == IF n = 0 THEN 1 ELSE 10 * Pow10(n - 1)

\* strptime on a string that its layout matches: the fields are read at the
\* positions of the layout; a field outside its directive's values or data
\* left after the format is a ValueError.  zone is the local zone.
\* "%a, %d %b %Y %H:%M:%S %Z"
strptime_wdmyhmsz(s, zone) ==
  IF /\ Len(s) = Len(wdmyhmsz_format)
     /\ lower(SubSeq(s, 1, 3)) \in WeekdayNames
     /\ FieldOk(s, 6, 1, 31)
     /\ lower(SubSeq(s, 9, 11)) \in Range(MonthNames)
     /\ FieldOk(s, 18, 0, 23) /\ FieldOk(s, 21, 0, 59) /\ FieldOk(s, 24, 0, 61)
     /\ lower(SubSeq(s, 27, 29)) \in {<<"u", "t", "c">>, <<"g", "m", "t">>, lower(zone.name)}
  THEN timestamp_of([year |-> int_of(s, 13, 16),
                     month |-> CHOOSE k \in 1..12 : MonthNames[k] = lower(SubSeq(s, 9, 11)),
                     day |-> int_of(s, 6, 7),
                     hour |-> int_of(s, 18, 19), minute |-> int_of(s, 21, 22),
                     second |-> int_of(s, 24, 25), micro |-> 0], zone.offset)
  ELSE Raise("ValueError")

\* "%Y-%m-%dT%H:%M:%S.%f", "%Y-%m-%d %H:%M:%S" and "%Y-%m-%d"
strptime_ymd(s, layout, zone) ==
  LET timed == Len(layout) > Len(ymd_format)
      extra == IF layout = ymdhmsf_format THEN more_digits(s, Len(layout) + 1, 3) ELSE 0
  IN  IF /\ Len(s) = Len(layout) + extra
         /\ FieldOk(s, 6, 1, 12) /\ FieldOk(s, 9, 1, 31)
         /\ timed => FieldOk(s, 12, 0, 23) /\ FieldOk(s, 15, 0, 59) /\ FieldOk(s, 18, 0, 61)
      THEN timestamp_of([DefaultFields EXCEPT
                           !.year = int_of(s, 1, 4), !.month = int_of(s, 6, 7),
                           !.day = int_of(s, 9, 10),
                           !.hour = IF timed THEN int_of(s, 12, 13) ELSE 0,
                           !.minute = IF timed THEN int_of(s, 15, 16) ELSE 0,
                           !.second = IF timed THEN int_of(s, 18, 19) ELSE 0,
                           !.micro = IF layout = ymdhmsf_format
                                     THEN int_of(s, 21, 23 + extra) * Pow10(3 - extra)
                                     ELSE 0], zone.offset)
      ELSE Raise("ValueError")

\* "%d-%m-%Y %H:%M:%S" and "%d-%m-%Y"
strptime_dmy(s, layout, zone) ==
  LET timed == Len(layout) > Len(dmy_format)
  IN  IF /\ Len(s) = Len(layout)
         /\ FieldOk(s, 1, 1, 31) /\ FieldOk(s, 4, 1, 12)
         /\ timed => FieldOk(s, 12, 0, 23) /\ FieldOk(s, 15, 0, 59) /\ FieldOk(s, 18, 0, 61)
      THEN timestamp_of([DefaultFields EXCEPT
                           !.year = int_of(s, 7, 10), !.month = int_of(s, 4, 5),
                           !.day = int_of(s, 1, 2),
                           !.hour = IF timed THEN int_of(s, 12, 13) ELSE 0,
                           !.minute = IF timed THEN int_of(s, 15, 16) ELSE 0,
                           !.second = IF timed THEN int_of(s, 18, 19) ELSE 0], zone.offset)
      ELSE Raise("ValueError")

\* "%Y-%m"
strptime_ym(s, zone) ==
  IF Len(s) = Len(ym_format) /\ FieldOk(s, 6, 1, 12)
  THEN timestamp_of([DefaultFields EXCEPT !.year = int_of(s, 1, 4), !.month = int_of(s, 6, 7)],
                    zone.offset)
  ELSE Raise("ValueError")

\* "%m-%Y"
strptime_my(s, zone) ==
  IF Len(s) = Len(my_format) /\ FieldOk(s, 1, 1, 12)
  THEN timestamp_of([DefaultFields EXCEPT !.year = int_of(s, 4, 7), !.month = int_of(s, 1, 2)],
                    zone.offset)
  ELSE Raise("ValueError")

check_date_format(date_str, zone) ==
  IF date_str = None THEN Return(PyStr(<<>>))
  ELSE IF re_match(wdmyhmsz_format, date_str, TRUE) THEN strptime_wdmyhmsz(date_str, zone)
  ELSE IF re_match(ymdhmsf_format, date_str, FALSE)
       THEN strptime_ymd(date_str, ymdhmsf_format, zone)
  ELSE IF re_match(ymdhms_format, date_str, FALSE)
       THEN strptime_ymd(date_str, ymdhms_format, zone)
  ELSE IF re_match(dmyhms_format, date_str, FALSE)
       THEN strptime_dmy(date_str, dmyhms_format, zone)
  ELSE IF re_match(ymd_format, date_str, FALSE) THEN strptime_ymd(date_str, ymd_format, zone)
  ELSE IF re_match(dmy_format, date_str, FALSE) THEN strptime_dmy(date_str, dmy_format, zone)
  ELSE IF re_match(ym_format, date_str, FALSE) THEN strptime_ym(date_str, zone)
  ELSE IF re_match(my_format, date_str, FALSE) THEN strptime_my(date_str, zone)
  ELSE Return(PyStr(<<>>))

(***************************************************************************)
(* The strings check_date_format is called on: None, the dates of its      *)
(* docstring, and dates put together from possible and impossible fields,  *)
(* alone or followed by more characters.  The local zone of the process is *)
(* UTC or a zone five hours west of it.                                    *)
(***************************************************************************)
LocalZones ==
  { [name |-> <<"U", "T", "C">>, offset |-> 0],
    [name |-> <<"E", "S", "T">>, offset |-> -18000] }

DateTails == {
    \* ''
    <<>>,
    \* 'x'
    <<"x">>,
    \* 'T12:45:30'
    <<"T", "1", "2", ":", "4", "5", ":", "3", "0">>,
    \* 'T00:00:00.000'
    <<"T", "0", "0", ":", "0", "0", ":", "0", "0", ".", "0", "0", "0">>,
    \* ' 12:45:30'
    <<" ", "1", "2", ":", "4", "5", ":", "3", "0">>,
    \* ' 25:00:00'
    <<" ", "2", "5", ":", "0", "0", ":", "0", "0">>
  }

DocstringDates == {
    \* 'Sun, 20 Nov 1994 12:45:30 UTC'
    <<"S", "u", "n", ",", " ", "2", "0", " ", "N", "o", "v", " ", "1", "9", "9", "4", " ", "1", "2", ":", "4", "5", ":", "3", "0", " ", "U", "T", "C">>,
    \* '1994-11-20 12:45:30'
    <<"1", "9", "9", "4", "-", "1", "1", "-", "2", "0", " ", "1", "2", ":", "4", "5", ":", "3", "0">>,
    \* '20-11-1994 12:45:30'
    <<"2", "0", "-", "1", "1", "-", "1", "9", "9", "4", " ", "1", "2", ":", "4", "5", ":", "3", "0">>,
    \* '1994-11-20'
    <<"1", "9", "9", "4", "-", "1", "1", "-", "2", "0">>,
    \* '20-11-1994'
    <<"2", "0", "-", "1", "1", "-", "1", "9", "9", "4">>,
    \* '1994-11'
    <<"1", "9", "9", "4", "-", "1", "1">>,
    \* '11-1994'
    <<"1", "1", "-", "1", "9", "9", "4">>,
    \* '2011-02-01T00:00:00.000'
    <<"2", "0", "1", "1", "-", "0", "2", "-", "0", "1", "T", "0", "0", ":", "0", "0", ":", "0", "0", ".", "0", "0", "0">>,
    \* 'Sun, 20 Nov 1994 12:45:30 EST'
    <<"S", "u", "n", ",", " ", "2", "0", " ", "N", "o", "v", " ", "1", "9", "9", "4", " ", "1", "2", ":", "4", "5", ":", "3", "0", " ", "E", "S", "T">>,
    \* '', 'abc'
    <<>>, <<"a", "b", "c">>
  }

DateInputs ==
  LET DateYears == {<<"1", "9", "9", "4">>, <<"0", "0", "0", "0">>}
      DateMonths == {<<"1", "1">>, <<"1", "3">>}
      DateDays == {<<"2", "0">>, <<"3", "1">>}
  IN
  {None} \cup DocstringDates
  \cup {y \o <<"-">> \o mo \o <<"-">> \o d \o tail :
          y \in DateYears, mo \in DateMonths, d \in DateDays, tail \in DateTails}
  \cup {d \o <<"-">> \o mo \o <<"-">> \o y \o tail :
          y \in DateYears, mo \in DateMonths, d \in DateDays, tail \in DateTails}
  \cup {y \o <<"-">> \o mo \o tail : y \in DateYears, mo \in DateMonths, tail \in DateTails}
  \cup {mo \o <<"-">> \o y \o tail : y \in DateYears, mo \in DateMonths, tail \in DateTails}

InitDate ==
  /\ pc = "call"
  /\ fn = "check_date_format"
  /\ \E date_str \in DateInputs, zone \in LocalZones :
       args = [date_str |-> date_str, zone |-> zone]
  /\ ret = Pending

\* check_date_format(date_str)
CallCheckDateFormat ==
  /\ pc = "call"
  /\ fn = "check_date_format"
  /\ ret' = check_date_format(args.date_str, args.zone)
  /\ pc' = "done"
  /\ UNCHANGED <<fn, args>>

NextDate == CallCheckDateFormat

SpecDate == InitDate /\ [][NextDate]_vars

(***************************************************************************)
(* Claims about check_date_format, checked under SpecDate.                 *)
(***************************************************************************)
DateDone == fn = "check_date_format" /\ pc = "done"

\* date_str ends with a character that ends no supported date
EndsWithJunk(s) == s # None /\ s # <<>> /\ s[Len(s)] = "x"

\* C7: check_date_format never raises and returns an integer or the empty
\* string: None gives "", and so does every string that is not a complete
\* valid date, such as a date followed by more characters (an ISO date-time
\* with 'T' and no milliseconds) or a date with an impossible month or day.
C7_NeverRaises ==
  DateDone =>
    /\ ret.tag = "return"
    /\ ret.val.type = "int" \/ ret.val = PyStr(<<>>)
    /\ args.date_str = None => ret.val = PyStr(<<>>)
    /\ EndsWithJunk(args.date_str) => ret.val = PyStr(<<>>)

(***************************************************************************)
(* lang_poll.  The detectors are outside the repository: what each of them *)
(* answers is part of the call's environment.  det.langid is the answer of *)
(* classify; det.cld2 and det.fastspell give the answer of cld2.detect and *)
(* of fast_spell.getlang on the text as passed in ("raw") and on the       *)
(* transliterated text that line 43 puts in its place ("ascii").  An       *)
(* answer is a language label or Failure, the detector raising.            *)
(***************************************************************************)
Failure == <<"Exception">>

\* detected_language after lines 35-48: the answer of the first cld2.detect,
\* of the second one when the first raises
detected_language(det) == IF det.cld2.raw # Failure THEN det.cld2.raw ELSE det.cld2.ascii

\* the text fast_spell.getlang is given: line 43 replaces text when the first
\* cld2.detect raises
fastspell_text(det) == IF det.cld2.raw # Failure THEN "raw" ELSE "ascii"

\* lang_list when the loop of line 59 starts (lines 31-56); langid has answered
poll_votes(det) ==
  <<lower(det.langid)>>
  \o (IF det.fastspell[fastspell_text(det)] # Failure
      THEN <<lower(det.fastspell[fastspell_text(det)])>>
      ELSE <<>>)

\* lang_list.count(prospect)
count(lang_list, prospect) == Cardinality({i \in 1..Len(lang_list) : lang_list[i] = prospect})

\* the loop of lines 58-63 over the prospects in the order given
RECURSIVE first_winner(_, _)
first_winner(lang_list, prospects) ==
  IF prospects = <<>> THEN None
  ELSE IF 2 * count(lang_list, Head(prospects)) > Len(lang_list) THEN Head(prospects)
  ELSE first_winner(lang_list, Tail(prospects))

\* the orders in which set(lang_list) can be iterated
Orders(lang_list) ==
  {order \in [1..Cardinality(Range(lang_list)) -> Range(lang_list)] :
     Range(order) = Range(lang_list)}

\* lang_poll(text) with the prospects examined in the given order
lang_poll(det, order) ==
  IF det.langid = Failure THEN Raise("Exception")
  ELSE Return(first_winner(poll_votes(det), order))

(***************************************************************************)
(* The answers of the detectors: each one a label, in lower or upper case, *)
(* or a failure.                                                           *)
(***************************************************************************)
Labels == { <<"e", "n">>, <<"e", "s">>, <<"E", "S">> }

Answers == Labels \cup {Failure}

Detectors ==
  [langid : Answers,
   cld2 : [raw : Answers, ascii : Answers],
   fastspell : [raw : Answers, ascii : Answers]]

InitPoll ==
  /\ pc = "call"
  /\ fn = "lang_poll"
  /\ \E det \in Detectors : args = [det |-> det]
  /\ ret = Pending

\* lang_poll(text)
CallLangPoll ==
  /\ pc = "call"
  /\ fn = "lang_poll"
  /\ \E order \in (IF args.det.langid = Failure THEN {<<>>}
                   ELSE Orders(poll_votes(args.det))) :
       ret' = lang_poll(args.det, order)
  /\ pc' = "done"
  /\ UNCHANGED <<fn, args>>

NextPoll == CallLangPoll

SpecPoll == InitPoll /\ [][NextPoll]_vars

(***************************************************************************)
(* Claims about lang_poll, checked under SpecPoll.                         *)
(***************************************************************************)
PollDone == fn = "lang_poll" /\ pc = "done"

\* one vote for each detector that answered: langid, cld2 (on its second try
\* when the first failed) and fastspell
VotesOfSuccessful(det) ==
  (IF det.langid # Failure THEN <<lower(det.langid)>> ELSE <<>>)
  \o (IF detected_language(det) # Failure THEN <<lower(detected_language(det))>> ELSE <<>>)
  \o (IF det.fastspell[fastspell_text(det)] # Failure
      THEN <<lower(det.fastspell[fastspell_text(det)])>> ELSE <<>>)

\* the language with more than half of the votes, None without one
MajorityWinner(tally) ==
  IF \E l \in Range(tally) : 2 * count(tally, l) > Len(tally)
  THEN CHOOSE l \in Range(tally) : 2 * count(tally, l) > Len(tally)
  ELSE None

\* C8: lang_poll returns the strict-majority winner over the votes of all the
\* detectors that succeeded, one vote each, so that the tally is as long as
\* the number of successful detectors; None when no language has more than
\* half of the votes.
C8_MajorityOfSuccessful ==
  (PollDone /\ ret.tag = "return") =>
    /\ ret.val = MajorityWinner(VotesOfSuccessful(args.det))
    /\ Len(poll_votes(args.det)) = Len(VotesOfSuccessful(args.det))

\* C9: a failure of any single detector is caught inside lang_poll, and
\* lang_poll still returns a language code or None.
C9_NoFailurePropagates ==
  PollDone =>
    /\ ret.tag = "return"
    /\ ret.val = None \/ ret.val \in {lower(l) : l \in Labels}

(***************************************************************************)
(* doi_processor                                                           *)
(***************************************************************************)
\* Python's False: a value no str is equal to
False == <<"False">>

\* str.strip(chars): s without its leading and trailing characters of chars
strip(s, chars) ==
  LET keep == {i \in 1..Len(s) : s[i] \notin chars}
  IN  IF keep = {} THEN <<>>
      ELSE SubSeq(s, CHOOSE i \in keep : \A j \in keep : i <= j,
                     CHOOSE i \in keep : \A j \in keep : i >= j)

\* search(r"\b10\.\d{3,}/[^\s]+", s): the group of the leftmost match, None
\* without one.  A match starts at a "10." that no word character precedes,
\* runs over three or more digits up to a "/" and then over every character
\* up to the next whitespace, at least one.
search_doi_regex(s) ==
  LET last_digit(i) == run_end(s, "digit", i + 3, Len(s))
      match_end(i) ==
        IF /\ i = 1 \/ ~IsWord(s[i - 1])
           /\ OccursAt(s, <<"1", "0", ".">>, i)
           /\ last_digit(i) >= i + 5
           /\ CharAt(s, last_digit(i) + 1, "/")
           /\ last_digit(i) + 2 <= Len(s)
           /\ ~IsSpace(s[last_digit(i) + 2])
        THEN CHOOSE e \in (last_digit(i) + 2)..Len(s) :
               /\ \A k \in (last_digit(i) + 2)..e : ~IsSpace(s[k])
               /\ e = Len(s) \/ IsSpace(s[e + 1])
        ELSE 0
      starts == {i \in 1..Len(s) : match_end(i) > 0}
  IN  IF starts = {} THEN None
      ELSE LET i == CHOOSE h \in starts : \A g \in starts : h <= g
           IN  SubSeq(s, i, match_end(i))

doi_processor(doi) ==
  LET Whitespace == {" ", "\t", "\n"}
      \* match.group().strip().strip('.').lower()
      cleaned(group) == lower(strip(strip(group, Whitespace), {"."}))
      \* lines 182-183
      doi_candidate ==
        replace(replace(lower(strip(strip(replace(doi, <<" ">>, <<>>), Whitespace), {"."})),
                        <<"%", "2", "f">>, <<"/">>),
                <<"d", "o", "i">>, <<>>)
      \* line 187
      is_url ==
        /\ \/ Contains(doi_candidate, <<"h", "t", "t", "p">>)
           \/ Contains(doi_candidate, <<"w", "w", "w">>)
           \/ Contains(doi_candidate, <<"d", "x">>)
        /\ Contains(doi_candidate, <<"1", "0", ".">>)
      \* doi_candidate.split("/10")[-1]
      cuts == {i \in 1..Len(doi_candidate) : OccursAt(doi_candidate, <<"/", "1", "0">>, i)}
      after_last_cut ==
        IF cuts = {} THEN doi_candidate
        ELSE SubSeq(doi_candidate, (CHOOSE i \in cuts : \A j \in cuts : i >= j) + 3,
                    Len(doi_candidate))
      \* lines 188-189
      rebuilt == <<"1", "0">> \o replace(after_last_cut, <<"%", "2", "f">>, <<"/">>)
      \* doi_candidate as lines 187-189 leave it
      url_candidate == IF is_url THEN rebuilt ELSE doi_candidate
      \* lines 193-194
      zero_candidate ==
        IF OccursAt(url_candidate, <<"0", ".">>, 1) THEN <<"1">> \o url_candidate
        ELSE url_candidate
      \* lines 198-203
      parts == split_char(doi, "/")
      head == IF parts[1] # <<>> /\ parts[1][Len(parts[1])] = "."
              THEN strip(parts[1], {"."}) ELSE parts[1]
      dotted == IF "." \notin Range(head)
                THEN replace(head, <<"1", "0">>, <<"1", "0", ".">>) ELSE head
      joined == join(<<dotted>> \o Tail(parts), <<"/">>)
  IN  IF search_doi_regex(doi) # None
      THEN Return(cleaned(search_doi_regex(doi)))
      ELSE IF search_doi_regex(doi_candidate) # None
      THEN Return(cleaned(search_doi_regex(doi_candidate)))
      ELSE IF is_url /\ search_doi_regex(rebuilt) # None
      THEN Return(lower(strip(search_doi_regex(rebuilt), {"."})))
      ELSE IF search_doi_regex(zero_candidate) # None
      THEN Return(cleaned(search_doi_regex(zero_candidate)))
      ELSE IF search_doi_regex(joined) # None
      THEN Return(cleaned(search_doi_regex(joined)))
      ELSE Return(False)

(***************************************************************************)
(* The texts doi_processor is called on: a lead-in, a registrant prefix, a  *)
(* separator and a suffix, each as written or damaged the way the five     *)
(* stages repair.                                                          *)
(***************************************************************************)
DoiInputs ==
  LET Leads == {
          \* ''
          <<>>,
          \* 'DOI: '
          <<"D", "O", "I", ":", " ">>,
          \* 'doi'
          <<"d", "o", "i">>,
          \* 'https://doi.org/'
          <<"h", "t", "t", "p", "s", ":", "/", "/", "d", "o", "i", ".", "o", "r", "g", "/">>,
          \* 'http://dx.doi.org/'
          <<"h", "t", "t", "p", ":", "/", "/", "d", "x", ".", "d", "o", "i", ".", "o", "r", "g", "/">>,
          \* 'www.x.org/'
          <<"w", "w", "w", ".", "x", ".", "o", "r", "g", "/">>
        }
      Registrants == {
          \* '10.1000'
          <<"1", "0", ".", "1", "0", "0", "0">>,
          \* '10.10'
          <<"1", "0", ".", "1", "0">>,
          \* '0.1000'
          <<"0", ".", "1", "0", "0", "0">>,
          \* '101234'
          <<"1", "0", "1", "2", "3", "4">>,
          \* '10.1000.'
          <<"1", "0", ".", "1", "0", "0", "0", ".">>,
          \* '10 .1000'
          <<"1", "0", " ", ".", "1", "0", "0", "0">>
        }
      Slashes == {
          \* '/'
          <<"/">>,
          \* '%2F'
          <<"%", "2", "F">>,
          \* '%doi2F'
          <<"%", "d", "o", "i", "2", "F">>
        }
      Suffixes == {
          \* 'xyz123'
          <<"x", "y", "z", "1", "2", "3">>,
          \* 'ABC.'
          <<"A", "B", "C", ".">>,
          \* '.'
          <<".">>,
          \* ''
          <<>>,
          \* 'a b'
          <<"a", " ", "b">>,
          \* '...'
          <<".", ".", ".">>
        }
  IN  {a \o b \o c \o d : a \in Leads, b \in Registrants, c \in Slashes, d \in Suffixes}

InitDoi ==
  /\ pc = "call"
  /\ fn = "doi_processor"
  /\ \E doi \in DoiInputs : args = [doi |-> doi]
  /\ ret = Pending

\* doi_processor(doi)
CallDoiProcessor ==
  /\ pc = "call"
  /\ fn = "doi_processor"
  /\ ret' = doi_processor(args.doi)
  /\ pc' = "done"
  /\ UNCHANGED <<fn, args>>

NextDoi == CallDoiProcessor

SpecDoi == InitDoi /\ [][NextDoi]_vars

(***************************************************************************)
(* Claims about doi_processor, checked under SpecDoi.                      *)
(***************************************************************************)
DoiDone == fn = "doi_processor" /\ pc = "done"

\* r is '10.' + at least 3 digits + '/' + a non-empty run of non-space
\* characters, from its first character to its last
StrictDoi(r) == search_doi_regex(r) = r

\* C11: for every text for which doi_processor returns a value r other than
\* False, r is lower-case, r matches the strict DOI pattern and
\* doi_processor(r) = r.
C11_IdempotentOnResults ==
  (DoiDone /\ ret.val # False) =>
    /\ lower(ret.val) = ret.val
    /\ StrictDoi(ret.val)
    /\ doi_processor(ret.val) = Return(ret.val)

====
